---- MODULE Spec2Model ----
(***************************************************************************)
(* A model of the TensorFlow Lite native module (src/src/main.rs): main    *)
(* reads /execution_config, try_parse decodes it with postcard into the    *)
(* four-field TfLiteInferenceService, and infer runs the linear pipeline   *)
(* model load, interpreter build, set_num_threads, allocate_tensors, input *)
(* read, invoke, output extraction, File::create, write_all.               *)
(*                                                                         *)
(* Bytes are naturals 0..255, a path or a file content is a sequence of    *)
(* bytes.  The file system is one flat root directory, which is also the   *)
(* working directory.  The TensorFlow Lite backend is opaque to the        *)
(* repository: a model file is the four bytes <<ModelMagic, number of      *)
(* inputs, number of outputs, failing stage>>, every tensor holds InLen    *)
(* bytes, and invocation copies the first input tensor to every output.    *)
(***************************************************************************)
EXTENDS Integers, Sequences, FiniteSets, TLC

VARIABLES
    fs,        \* file name -> file: [exists, data], data a byte sequence
    fs0,       \* the file system as it was when the process started
    pc,        \* position of the process in main / infer
    service,   \* the TfLiteInferenceService descriptor (main's `service`)
    input,     \* main's `input`: the bytes read from the configuration file
    parsed,    \* what try_parse returned: "none" before the call, "true", "false"
    interp,    \* the backend's model and interpreter (NoInterp before model load)
    output,    \* infer's `output`: the bytes of the output tensor
    err,       \* the originating error, "none" while no step has failed
    exit,      \* <<>> while the process runs, then <<its exit status>>
    accesses,  \* the file accesses made so far, in order
    prev       \* the outcome of an earlier run of the process on the same files

vars == <<fs, fs0, pc, service, input, parsed, interp, output, err, exit, accesses, prev>>

(***************************************************************************)
(* Bounds of the model.                                                    *)
(***************************************************************************)
InLen == 2          \* byte length of every tensor of a model
MaxTensors == 2     \* a model has 0..MaxTensors input and output tensors

(***************************************************************************)
(* Bytes, paths and the file system.                                       *)
(***************************************************************************)
Slash == 47
ModelMagic == 77
NoFile == [exists |-> FALSE, data |-> <<>>]
File(bytes) == [exists |-> TRUE, data |-> bytes]

\* "/execution_config"
ExecutionConfigPath ==
    <<47, 101, 120, 101, 99, 117, 116, 105, 111, 110, 95, 99, 111, 110, 102, 105, 103>>
ConfigName == SubSeq(ExecutionConfigPath, 2, Len(ExecutionConfigPath))

NameM == <<109>>
NameI == <<105>>
NameO == <<111>>
FileNames == {ConfigName, NameM, NameI, NameO}

Take(s, n) == SubSeq(s, 1, n)
Drop(s, n) == SubSeq(s, n + 1, Len(s))

\* The components of a path: the maximal runs of bytes other than '/'.
RECURSIVE Components(_)
Components(p) ==
    IF p = <<>> THEN <<>>
    ELSE IF Head(p) = Slash THEN Components(Tail(p))
    ELSE LET rest == Components(Tail(p))
         IN  IF Len(p) > 1 /\ p[2] # Slash
             THEN <<(<<Head(p)>> \o Head(rest))>> \o Tail(rest)
             ELSE <<(<<Head(p)>>)>> \o rest

\* What a path names for open(2): a file name of the root directory, or the
\* errno it fails with.
Resolve(p) ==
    IF \E k \in 1..Len(p) : p[k] = 0 THEN [ok |-> FALSE, name |-> <<>>, errno |-> "EINVAL"]
    ELSE IF p = <<>> THEN [ok |-> FALSE, name |-> <<>>, errno |-> "ENOENT"]
    ELSE LET c == Components(p)
         IN  IF c = <<>> THEN [ok |-> FALSE, name |-> <<>>, errno |-> "EISDIR"]
             ELSE IF Len(c) > 1 THEN [ok |-> FALSE, name |-> <<>>, errno |-> "ENOENT"]
             ELSE IF p[Len(p)] = Slash
                  THEN [ok |-> FALSE, name |-> <<>>, errno |-> "ENOTDIR"]
             ELSE [ok |-> TRUE, name |-> c[1], errno |-> "none"]

\* File::open / fs::read of path p in file system f: the file, NoFile on failure.
OpenRead(f, p) ==
    LET r == Resolve(p)
    IN  IF r.ok /\ r.name \in DOMAIN f THEN f[r.name] ELSE NoFile

\* Path::new("/").join(p): an absolute p replaces the base.
JoinRoot(p) ==
    IF p # <<>> /\ Head(p) = Slash THEN p ELSE <<Slash>> \o p

(***************************************************************************)
(* postcard::from_bytes::<TfLiteInferenceService>: three strings (varint   *)
(* length, then that many UTF-8 bytes) and an i32 (zigzag varint), in      *)
(* field order; bytes after the last field are ignored.  This is the wire  *)
(* format of postcard 1.x; the crate's version is not pinned in main.rs.   *)
(***************************************************************************)
VarintMaxUsize == 10    \* bytes of a varint-encoded 64-bit usize
VarintMaxU32 == 5       \* bytes of a varint-encoded u32
DecodeFail == [ok |-> FALSE, val |-> 0, rest |-> <<>>]

RECURSIVE TakeVarintFrom(_, _, _, _, _, _)
TakeVarintFrom(bs, i, mult, acc, maxBytes, maxLast) ==
    IF i > maxBytes THEN DecodeFail                      \* DeserializeBadVarint
    ELSE IF bs = <<>> THEN DecodeFail                    \* DeserializeUnexpectedEnd
    ELSE LET b == Head(bs)
             out == acc + (b % 128) * mult
         IN  IF b < 128
             THEN IF i = maxBytes /\ b > maxLast THEN DecodeFail
                  ELSE [ok |-> TRUE, val |-> out, rest |-> Tail(bs)]
             ELSE TakeVarintFrom(Tail(bs), i + 1, mult * 128, out, maxBytes, maxLast)

TakeVarintUsize(bs) == TakeVarintFrom(bs, 1, 1, 0, VarintMaxUsize, 1)
TakeVarintU32(bs) == TakeVarintFrom(bs, 1, 1, 0, VarintMaxU32, 15)

\* str::from_utf8 on the bytes of the model: every byte below 128 is a
\* character; a lone byte of 128 or more is never valid UTF-8.
IsUtf8(bs) == \A k \in 1..Len(bs) : bs[k] < 128

\* deserialize_string into a PathBuf.
TakePath(bs) ==
    LET n == TakeVarintUsize(bs)
    IN  IF ~n.ok THEN DecodeFail
        ELSE IF n.val > Len(n.rest) THEN DecodeFail      \* DeserializeUnexpectedEnd
        ELSE IF ~IsUtf8(Take(n.rest, n.val)) THEN DecodeFail  \* DeserializeBadUtf8
        ELSE [ok |-> TRUE, val |-> Take(n.rest, n.val), rest |-> Drop(n.rest, n.val)]

\* A zigzag decoding that forgets the sign bit.
ZigZagDecodeUnsigned(n) == n \div 2

\* deserialize_i32: the zigzag decoding of a u32 varint.
ZigZagDecode(n) == IF n % 2 = 0 THEN n \div 2 ELSE -((n + 1) \div 2)

TakeI32(bs) ==
    LET n == TakeVarintU32(bs)
    IN  IF ~n.ok THEN DecodeFail
        ELSE [ok |-> TRUE, val |-> ZigZagDecode(n.val), rest |-> n.rest]

Descriptor(i, m, o, n) ==
    [input_tensor_path |-> i, model_path |-> m, output_tensor_path |-> o, num_threads |-> n]

\* A constructor whose defaults name conventional files.
NewServiceWithPaths == Descriptor(<<105>>, <<109>>, <<111>>, -1)

\* TfLiteInferenceService::new()
NewService == Descriptor(<<>>, <<>>, <<>>, -1)

FromBytes(bs) ==
    LET i == TakePath(bs)
        m == TakePath(i.rest)
        o == TakePath(m.rest)
        n == TakeI32(o.rest)
    IN  IF i.ok /\ m.ok /\ o.ok /\ n.ok
        THEN [ok |-> TRUE, val |-> Descriptor(i.val, m.val, o.val, n.val)]
        ELSE [ok |-> FALSE, val |-> NewService]

\* The schema-exact encoding of a descriptor (what the configuration file of
\* a well-formed job holds).
RECURSIVE EncVarint(_)
EncVarint(n) == IF n < 128 THEN <<n>> ELSE <<128 + (n % 128)>> \o EncVarint(n \div 128)
ZigZagEncode(v) == IF v >= 0 THEN 2 * v ELSE -(2 * v) - 1
EncPath(p) == EncVarint(Len(p)) \o p
Encode(d) ==
    EncPath(d.input_tensor_path) \o EncPath(d.model_path)
        \o EncPath(d.output_tensor_path) \o EncVarint(ZigZagEncode(d.num_threads))

(***************************************************************************)
(* The backend, as far as infer uses it.                                   *)
(***************************************************************************)
IsModel(bytes) == Len(bytes) = 4 /\ bytes[1] = ModelMagic
ParseModel(bytes) == [nIn |-> bytes[2], nOut |-> bytes[3], fail |-> bytes[4]]

\* The stage at which the backend rejects a model whose fourth byte is not 0.
StageCode ==
    [build |-> 1, allocate_tensors |-> 2, tensor_data_mut |-> 3, invoke |-> 4,
     tensor_data |-> 5]
FailsAt(model, stage) == model.fail = StageCode[stage]

Zeros(n) == [k \in 1..n |-> 0]

NoInterp ==
    [loaded |-> FALSE, model |-> [nIn |-> 0, nOut |-> 0, fail |-> 0], built |-> FALSE,
     num_threads |-> <<>>, allocated |-> FALSE, inputData |-> <<>>,
     outputData |-> <<>>, invoked |-> FALSE]

\* read_exact(buf) on a file of the given bytes: buf is filled from the start
\* of the file; a file shorter than buf is an UnexpectedEof error.
ReadExact(bytes, n) ==
    IF Len(bytes) < n
    THEN [ok |-> FALSE, buf |-> bytes \o Zeros(n - Len(bytes))]
    ELSE [ok |-> TRUE, buf |-> Take(bytes, n)]

\* An assertion that only rules out a model without inputs.
SomeInput(n) == n >= 1

\* assert_eq!(inputs.len(), 1)
SingleInput(n) == n = 1

\* outputs[0]: the index is in range.
HasFirstOutput(n) == n >= 1

(***************************************************************************)
(* The initial states: the file system the process is started in.          *)
(***************************************************************************)
Pattern(n) == [k \in 1..n |-> k]
OldOutput == [k \in 1..(InLen + 1) |-> 9]

ModelFiles ==
    {File(<<ModelMagic, a, b, 0>>) : a \in 0..MaxTensors, b \in 0..MaxTensors}
        \cup {File(<<ModelMagic, 1, 1, f>>) : f \in 1..5} \cup {NoFile}
InputFiles == {File(Pattern(n)) : n \in 0..(InLen + 1)} \cup {NoFile}
OutputFiles == {NoFile, File(OldOutput)}

JobDescriptors ==
    {Descriptor(i, m, o, n) :
        i \in {NameI, NameM, <<>>}, m \in {NameM, NameI, <<>>},
        o \in {NameO, <<Slash>> \o NameO, NameI, <<>>}, n \in {-1, 2}}

\* Descriptors whose thread count takes two bytes on the wire, with an
\* absolute output path.
WideDescriptors ==
    {Descriptor(NameI, NameM, <<Slash>> \o NameO, n) : n \in {1, 64, -65}}

Prefixes(bs) == {Take(bs, k) : k \in 0..(Len(bs) - 1)}

\* Byte sequences that are not the encoding of a descriptor: truncated
\* encodings, a path that is not UTF-8, a length beyond the buffer, varints
\* that do not end or exceed an i32; and one encoding followed by a byte.
MalformedConfigs ==
    Prefixes(Encode(Descriptor(NameI, NameM, NameO, 2)))
        \cup {<<255>>, <<1, 255, 0, 0, 0>>, <<5, 109>>, <<0, 0, 0, 128>>,
              <<1, 105, 1, 109, 1, 111, 255, 255, 255, 255, 127>>}
TrailingConfigs == {Encode(Descriptor(NameI, NameM, NameO, -1)) \o <<7>>}

ConfigInputs ==
    {Encode(d) : d \in JobDescriptors \cup WideDescriptors}
        \cup MalformedConfigs \cup TrailingConfigs
ConfigFiles == {File(c) : c \in ConfigInputs} \cup {NoFile}

\* No earlier run.
NoPrev ==
    [run |-> FALSE, exit |-> <<>>, err |-> "none", fs |-> <<>>, interp |-> <<>>,
     fault |-> FALSE, num_threads |-> 0]

Init ==
    /\ \E c \in ConfigFiles, m \in ModelFiles, i \in InputFiles, o \in OutputFiles :
          fs = (ConfigName :> c) @@ (NameM :> m) @@ (NameI :> i) @@ (NameO :> o)
    /\ fs0 = fs
    /\ pc = "main"
    /\ service = NewService
    /\ input = <<>>
    /\ parsed = "none"
    /\ interp = NoInterp
    /\ output = <<>>
    /\ err = "none"
    /\ exit = <<>>
    /\ accesses = <<>>
    /\ prev = NoPrev

(***************************************************************************)
(* main and try_parse.                                                     *)
(***************************************************************************)
Fail(e) == pc' = "Failed" /\ err' = e
Access(op, path) == accesses' = Append(accesses, [op |-> op, path |-> path])

\* main, lines 120-123: File::open("/execution_config")? and read_to_end?.
ReadConfig ==
    /\ pc = "main"
    /\ Access("read", ExecutionConfigPath)
    /\ LET f == OpenRead(fs, ExecutionConfigPath)
       IN  IF f.exists
           THEN input' = f.data /\ pc' = "read" /\ err' = err
           ELSE input' = input /\ Fail("FileIOError")
    /\ UNCHANGED <<fs, fs0, prev, service, parsed, interp, output, exit>>

\* A try_parse that assigns each field as soon as it is decoded.
ParseIntoFieldwise(self, bytes) ==
    LET r == FromBytes(bytes)
        i == TakePath(bytes)
        m == TakePath(i.rest)
    IN  IF r.ok THEN r.val
        ELSE IF i.ok /\ m.ok
             THEN [self EXCEPT !.input_tensor_path = i.val, !.model_path = m.val]
        ELSE IF i.ok THEN [self EXCEPT !.input_tensor_path = i.val]
        ELSE self

\* try_parse: the value of *self when it returns.
ParseInto(self, bytes) ==
    LET r == FromBytes(bytes)
    IN  IF r.ok THEN r.val ELSE self

\* try_parse: the boolean it returns (it never returns Err).
ParseAnswer(bytes) == IF FromBytes(bytes).ok THEN "true" ELSE "false"

\* main, line 125: service.try_parse(&input)?  try_parse never returns Err,
\* so `?` never stops main, and the boolean is dropped: infer is called next.
TryParse ==
    /\ pc = "read"
    /\ service' = ParseInto(service, input)
    /\ parsed' = ParseAnswer(input)
    /\ pc' = "Created"
    /\ UNCHANGED <<fs, fs0, prev, input, interp, output, err, exit, accesses>>

(***************************************************************************)
(* infer.                                                                  *)
(***************************************************************************)
\* An infer that creates the output file before it loads the model.
ModelLoadAfterCreate ==
    /\ pc = "Created"
    /\ Access("read", service.model_path)
    /\ LET r == Resolve(JoinRoot(service.output_tensor_path))
       IN  IF r.ok /\ r.name \in DOMAIN fs
           THEN fs' = [fs EXCEPT ![r.name] = File(<<>>)]
           ELSE fs' = fs
    /\ LET f == OpenRead(fs', service.model_path)
       IN  IF ~f.exists THEN Fail("FileIOError") /\ interp' = interp
           ELSE IF ~IsModel(f.data) THEN Fail("ModelLoadError") /\ interp' = interp
           ELSE /\ interp' = [interp EXCEPT !.loaded = TRUE, !.model = ParseModel(f.data)]
                /\ pc' = "ModelLoaded"
                /\ err' = err
    /\ UNCHANGED <<fs0, prev, service, input, parsed, output, exit>>

\* A model load that first opens the model file to see whether it is there.
ModelLoadProbingFirst ==
    /\ pc = "Created"
    /\ accesses' = accesses \o <<[op |-> "read", path |-> service.model_path],
                                 [op |-> "read", path |-> service.model_path]>>
    /\ LET f == OpenRead(fs, service.model_path)
       IN  IF ~f.exists THEN Fail("FileIOError") /\ interp' = interp
           ELSE IF ~IsModel(f.data) THEN Fail("ModelLoadError") /\ interp' = interp
           ELSE /\ interp' = [interp EXCEPT !.loaded = TRUE, !.model = ParseModel(f.data)]
                /\ pc' = "ModelLoaded"
                /\ err' = err
    /\ UNCHANGED <<fs, fs0, prev, service, input, parsed, output, exit>>

\* line 76: FlatBufferModel::build_from_file(model_path)?
ModelLoad ==
    /\ pc = "Created"
    /\ Access("read", service.model_path)
    /\ LET f == OpenRead(fs, service.model_path)
       IN  IF ~f.exists THEN Fail("FileIOError") /\ interp' = interp
           ELSE IF ~IsModel(f.data) THEN Fail("ModelLoadError") /\ interp' = interp
           ELSE /\ interp' = [interp EXCEPT !.loaded = TRUE, !.model = ParseModel(f.data)]
                /\ pc' = "ModelLoaded"
                /\ err' = err
    /\ UNCHANGED <<fs, fs0, prev, service, input, parsed, output, exit>>

\* lines 77-79: InterpreterBuilder::new(&model, &resolver)?.build()?
BuildInterpreter ==
    /\ pc = "ModelLoaded"
    /\ IF FailsAt(interp.model, "build")
       THEN Fail("InterpreterBuildError") /\ interp' = interp
       ELSE interp' = [interp EXCEPT !.built = TRUE] /\ pc' = "InterpreterReady" /\ err' = err
    /\ UNCHANGED <<fs, fs0, prev, service, input, parsed, output, exit, accesses>>

\* A set_num_threads call that replaces a non-positive count by 1.
SetNumThreadsClamped ==
    /\ pc = "InterpreterReady"
    /\ interp' = [interp EXCEPT !.num_threads =
                     Append(@, IF service.num_threads < 1 THEN 1 ELSE service.num_threads)]
    /\ pc' = "ThreadsSet"
    /\ UNCHANGED <<fs, fs0, prev, service, input, parsed, output, err, exit, accesses>>

\* line 82: interpreter.set_num_threads(*num_threads)
SetNumThreads ==
    /\ pc = "InterpreterReady"
    /\ interp' = [interp EXCEPT !.num_threads = Append(@, service.num_threads)]
    /\ pc' = "ThreadsSet"
    /\ UNCHANGED <<fs, fs0, prev, service, input, parsed, output, err, exit, accesses>>

\* An allocation that rejects a thread count that is not positive.
AllocateTensorsCheckingThreads ==
    /\ pc = "ThreadsSet"
    /\ IF FailsAt(interp.model, "allocate_tensors") \/ service.num_threads < 1
       THEN Fail("AllocationError") /\ interp' = interp
       ELSE /\ interp' = [interp EXCEPT !.allocated = TRUE, !.inputData = Zeros(InLen),
                                        !.outputData = Zeros(InLen)]
            /\ pc' = "TensorsAllocated"
            /\ err' = err
    /\ UNCHANGED <<fs, fs0, prev, service, input, parsed, output, exit, accesses>>

\* line 84: interpreter.allocate_tensors()?
AllocateTensors ==
    /\ pc = "ThreadsSet"
    /\ IF FailsAt(interp.model, "allocate_tensors")
       THEN Fail("AllocationError") /\ interp' = interp
       ELSE /\ interp' = [interp EXCEPT !.allocated = TRUE, !.inputData = Zeros(InLen),
                                        !.outputData = Zeros(InLen)]
            /\ pc' = "TensorsAllocated"
            /\ err' = err
    /\ UNCHANGED <<fs, fs0, prev, service, input, parsed, output, exit, accesses>>

\* lines 88-94: the single-input assertion, File::open(&input_tensor_path)?,
\* tensor_data_mut(input_index)? and read_exact(..)?
BindInput ==
    /\ pc = "TensorsAllocated"
    /\ IF ~SingleInput(interp.model.nIn)
       THEN Fail("panic") /\ UNCHANGED <<interp, accesses>>
       ELSE /\ Access("read", service.input_tensor_path)
            /\ LET f == OpenRead(fs, service.input_tensor_path)
                   r == ReadExact(f.data, InLen)
               IN  IF ~f.exists THEN Fail("FileIOError") /\ interp' = interp
                   ELSE IF FailsAt(interp.model, "tensor_data_mut")
                        THEN Fail("TensorDataError") /\ interp' = interp
                   ELSE /\ interp' = [interp EXCEPT !.inputData = r.buf]
                        /\ IF r.ok THEN pc' = "InputBound" /\ err' = err
                           ELSE Fail("FileIOError")
    /\ UNCHANGED <<fs, fs0, prev, service, input, parsed, output, exit>>

\* An invoke whose error is recorded while the pipeline goes on.
InvokeAndGoOn ==
    /\ pc = "InputBound"
    /\ IF FailsAt(interp.model, "invoke")
       THEN interp' = interp /\ pc' = "Invoked" /\ err' = "InvocationError"
       ELSE /\ interp' = [interp EXCEPT !.invoked = TRUE, !.outputData = interp.inputData]
            /\ pc' = "Invoked"
            /\ err' = err
    /\ UNCHANGED <<fs, fs0, prev, service, input, parsed, output, exit, accesses>>

\* line 97: interpreter.invoke()?   The model computes output = input.
Invoke ==
    /\ pc = "InputBound"
    /\ IF FailsAt(interp.model, "invoke")
       THEN Fail("InvocationError") /\ interp' = interp
       ELSE /\ interp' = [interp EXCEPT !.invoked = TRUE, !.outputData = interp.inputData]
            /\ pc' = "Invoked"
            /\ err' = err
    /\ UNCHANGED <<fs, fs0, prev, service, input, parsed, output, exit, accesses>>

\* lines 101-104: outputs[0] and tensor_data(output_index)?
GetOutput ==
    /\ pc = "Invoked"
    /\ IF ~HasFirstOutput(interp.model.nOut) THEN Fail("panic") /\ output' = output
       ELSE IF FailsAt(interp.model, "tensor_data")
            THEN Fail("TensorDataError") /\ output' = output
       ELSE output' = interp.outputData /\ pc' = "OutputExtracted" /\ err' = err
    /\ UNCHANGED <<fs, fs0, prev, service, input, parsed, interp, exit, accesses>>

\* line 107: File::create(Path::new("/").join(output_tensor_path))?  creates
\* the file or truncates it; the environment may refuse (envOk = FALSE).
CreateOutput ==
    /\ pc = "OutputExtracted"
    /\ Access("create", JoinRoot(service.output_tensor_path))
    /\ \E envOk \in BOOLEAN :
         LET r == Resolve(JoinRoot(service.output_tensor_path))
         IN  IF r.ok /\ r.name \in DOMAIN fs /\ envOk
             THEN fs' = [fs EXCEPT ![r.name] = File(<<>>)] /\ pc' = "OutputCreated" /\ err' = err
             ELSE fs' = fs /\ Fail("FileIOError")
    /\ UNCHANGED <<fs0, prev, service, input, parsed, interp, output, exit>>

\* A single write(..)? in place of write_all: a short write counts as success.
WriteOutputOnce ==
    /\ pc = "OutputCreated"
    /\ Access("write", JoinRoot(service.output_tensor_path))
    /\ \E k \in 0..Len(output) :
         fs' = [fs EXCEPT ![Resolve(JoinRoot(service.output_tensor_path)).name] =
                              File(Take(output, k))]
    /\ pc' = "OutputWritten"
    /\ UNCHANGED <<fs0, prev, service, input, parsed, interp, output, err, exit>>

\* line 108: file.write_all(&output.to_vec())?  writes all the bytes, or
\* fails after writing only the first k of them.
WriteOutput ==
    /\ pc = "OutputCreated"
    /\ Access("write", JoinRoot(service.output_tensor_path))
    /\ \E k \in 0..Len(output) :
         /\ fs' = [fs EXCEPT ![Resolve(JoinRoot(service.output_tensor_path)).name] =
                                 File(Take(output, k))]
         /\ IF k = Len(output) THEN pc' = "OutputWritten" /\ err' = err
            ELSE Fail("FileIOError")
    /\ UNCHANGED <<fs0, prev, service, input, parsed, interp, output, exit>>

\* A main that drops infer's result and returns Ok(()).
ExitStatusDroppingError(e) == IF e = "panic" THEN 101 ELSE 0

\* The status the process ends with: main returned Ok, a panic, or main
\* returned Err.
ExitStatus(e) == IF e = "none" THEN 0 ELSE IF e = "panic" THEN 101 ELSE 1

\* lines 110, 126-127: infer's result is main's result; the process ends.
Exit ==
    /\ pc \in {"OutputWritten", "Failed"}
    /\ exit' = <<ExitStatus(err)>>
    /\ pc' = "Exited"
    /\ UNCHANGED <<fs, fs0, prev, service, input, parsed, interp, output, err, accesses>>

Next ==
    \/ ReadConfig
    \/ TryParse
    \/ ModelLoad
    \/ BuildInterpreter
    \/ SetNumThreads
    \/ AllocateTensors
    \/ BindInput
    \/ Invoke
    \/ GetOutput
    \/ CreateOutput
    \/ WriteOutput
    \/ Exit

Spec == Init /\ [][Next]_vars

(***************************************************************************)
(* Two runs of the process that differ only in num_threads: when a run on  *)
(* a well-formed configuration has ended, the process is started again in  *)
(* the file system the first run started in, the configuration file now    *)
(* encoding the same three paths and another thread count.                 *)
(***************************************************************************)
ThreadCounts == {-1, 1, 2}

\* The environment, not the program, made the run fail: File::create was
\* refused on a path that names a file of the root directory, or write_all
\* stopped short.
EnvFault ==
    /\ err = "FileIOError"
    /\ \E k \in 1..Len(accesses) : accesses[k].op = "create"
    /\ Resolve(JoinRoot(service.output_tensor_path)).ok
    /\ Resolve(JoinRoot(service.output_tensor_path)).name \in DOMAIN fs

Rerun ==
    /\ pc = "Exited"
    /\ ~prev.run
    /\ parsed = "true"
    /\ input = Encode(service)
    /\ \E n \in ThreadCounts \ {service.num_threads} :
          fs' = [fs0 EXCEPT ![ConfigName] = File(Encode([service EXCEPT !.num_threads = n]))]
    /\ fs0' = fs'
    /\ prev' = [run |-> TRUE, exit |-> exit, err |-> err, fs |-> fs, interp |-> interp,
                fault |-> EnvFault, num_threads |-> service.num_threads]
    /\ pc' = "main"
    /\ service' = NewService
    /\ input' = <<>>
    /\ parsed' = "none"
    /\ interp' = NoInterp
    /\ output' = <<>>
    /\ err' = "none"
    /\ exit' = <<>>
    /\ accesses' = <<>>

NextTwoRuns == Next \/ Rerun

SpecTwoRuns == Init /\ [][NextTwoRuns]_vars

TypeOK ==
    /\ pc \in {"main", "read", "Created", "ModelLoaded", "InterpreterReady", "ThreadsSet",
               "TensorsAllocated", "InputBound", "Invoked", "OutputExtracted",
               "OutputCreated", "OutputWritten", "Failed", "Exited"}
    /\ DOMAIN fs = FileNames
    /\ parsed \in {"none", "true", "false"}
    /\ Len(exit) <= 1

(***************************************************************************)
(* Vocabulary of the properties.                                           *)
(***************************************************************************)
Terminal == pc \in {"Failed", "Exited"}
OutputPath == JoinRoot(service.output_tensor_path)
OutputFile(f) == OpenRead(f, OutputPath)
InputFile0 == OpenRead(fs0, service.input_tensor_path)
ModelFile0 == OpenRead(fs0, service.model_path)
Ops == {accesses[k].op : k \in 1..Len(accesses)}
IsProperPrefix(a, b) == Len(a) < Len(b) /\ a = Take(b, Len(a))

\* Positions of infer at or after a successful read of the input tensor.
PastInputBinding ==
    {"InputBound", "Invoked", "OutputExtracted", "OutputCreated", "OutputWritten"}

(***************************************************************************)
(* C1: after a failed try_parse in main, no step of infer is executed:     *)
(* the model is never loaded and no file other than the configuration file *)
(* is ever accessed.                                                       *)
(***************************************************************************)
C1_NoInferAfterFailedParse ==
    parsed = "false" => /\ pc \in {"Created", "Exited"}
                        /\ Len(accesses) = 1
                        /\ ~interp.loaded

(***************************************************************************)
(* C2: try_parse answers "false" exactly when the bytes do not decode, and *)
(* then raises no error and leaves all four fields as they were (the       *)
(* default descriptor); when they decode, all four fields are the decoded  *)
(* values.  The descriptor is never a mix of the two.                      *)
(***************************************************************************)
C2_ParseAtomic ==
    /\ parsed = "none" => service = NewService
    /\ parsed = "false" => /\ ~FromBytes(input).ok
                           /\ service = NewService
                           /\ (pc = "Created" => err = "none")
    /\ parsed = "true" => /\ FromBytes(input).ok
                          /\ service = FromBytes(input).val
                          /\ (pc = "Created" => err = "none")
    /\ service = NewService \/ (parsed = "true" /\ service = FromBytes(input).val)

\* A failed parse of bytes whose first field did decode to a non-empty path.
C2_Witness ==
    /\ parsed = "false"
    /\ TakePath(input).ok
    /\ TakePath(input).val # <<>>
    /\ service = NewService

(***************************************************************************)
(* C3: if the input tensor file's length differs from the input tensor's   *)
(* byte length (shorter or longer), infer never gets past the input read:  *)
(* it does not invoke the model and does not touch the file system.        *)
(***************************************************************************)
C3_LengthMismatchFails ==
    (interp.allocated /\ InputFile0.exists /\ Len(InputFile0.data) # InLen)
        => /\ pc \notin PastInputBinding
           /\ ~interp.invoked
           /\ fs = fs0
           /\ (pc = "Exited" => exit # <<0>>)

(***************************************************************************)
(* C4: if the model does not have exactly one input tensor, infer panics   *)
(* before the input file is opened: only the configuration and the model   *)
(* have been read, the model is never invoked, no file is created or       *)
(* written, and the process ends with the panic status.                    *)
(***************************************************************************)
C4_InputCardinality ==
    (interp.loaded /\ interp.model.nIn # 1)
        => /\ Len(accesses) = 2
           /\ pc \notin PastInputBinding
           /\ ~interp.invoked
           /\ fs = fs0
           /\ (Terminal /\ interp.allocated => err = "panic")
           /\ (pc = "Exited" => exit # <<0>>)

\* A run on a model with two inputs, with a well-sized input file present,
\* that ended in the assertion's panic.
C4_Witness ==
    /\ pc = "Exited"
    /\ interp.allocated
    /\ interp.model.nIn = 2
    /\ InputFile0.exists /\ Len(InputFile0.data) = InLen
    /\ err = "panic"
    /\ exit = <<101>>

(***************************************************************************)
(* C5: if the model does not have exactly one output tensor (zero, two or  *)
(* more), the run fails and never creates or writes the output file.       *)
(***************************************************************************)
C5_OutputCardinality ==
    (interp.loaded /\ interp.model.nOut # 1)
        => /\ pc \notin {"OutputExtracted", "OutputCreated", "OutputWritten"}
           /\ fs = fs0
           /\ (pc = "Exited" => exit # <<0>>)

(***************************************************************************)
(* C6 as stated: a failed run leaves no partial output artifact, also when *)
(* the persistence step itself fails: in every terminal failed state the   *)
(* file at the output path is what it was before the run; a successful run *)
(* leaves it holding all the output bytes.                                 *)
(***************************************************************************)
C6_NoPartialArtifact ==
    /\ (Terminal /\ err # "none") => OutputFile(fs) = OutputFile(fs0)
    /\ (pc \in {"OutputWritten", "Exited"} /\ err = "none") => OutputFile(fs) = File(output)

(***************************************************************************)
(* C6 amended: a run either completes fully, the output file holding all   *)
(* the bytes of the output tensor, or fails; a failure up to and including *)
(* a failed File::create leaves every file as it was, and a failure of     *)
(* write_all after a successful create leaves at the output path a         *)
(* truncated file, a proper prefix (possibly empty) of the output bytes,   *)
(* and every other file as it was.                                         *)
(***************************************************************************)
C6_CompleteOrTruncated ==
    /\ (pc \in {"OutputWritten", "Exited"} /\ err = "none")
          => /\ interp.invoked
             /\ output = interp.outputData
             /\ OutputFile(fs) = File(output)
    /\ (Terminal /\ err # "none")
          => \/ fs = fs0
             \/ /\ "write" \in Ops
                /\ OutputFile(fs).exists
                /\ IsProperPrefix(OutputFile(fs).data, output)
                /\ \A n \in FileNames :
                      n # Resolve(OutputPath).name => fs[n] = fs0[n]

\* write_all failed after one byte: the old output file is gone and the
\* output path holds a one-byte file.
C6_Witness ==
    /\ pc = "Exited"
    /\ err = "FileIOError"
    /\ "write" \in Ops
    /\ OutputFile(fs0) = File(OldOutput)
    /\ OutputFile(fs) = File(Take(output, 1))

(***************************************************************************)
(* C7: if a stage before persistence fails (model load, interpreter build, *)
(* allocation, input open or read, invocation, output extraction), infer   *)
(* fails, the process ends with a non-zero status, and no file, the one at *)
(* the output path included, is created, truncated or written.             *)
(***************************************************************************)
C7_FailureBeforePersistence ==
    (Terminal /\ err # "none" /\ "create" \notin Ops)
        => /\ fs = fs0
           /\ OutputFile(fs) = OutputFile(fs0)
           /\ (pc = "Exited" => exit \in {<<1>>, <<101>>})

\* A well-formed job naming a model file that does not exist, while an
\* output file of an earlier run exists: the run failed at model load.
C7_Witness ==
    /\ pc = "Exited"
    /\ parsed = "true"
    /\ service.model_path # <<>>
    /\ ~ModelFile0.exists
    /\ ~interp.loaded
    /\ err = "FileIOError"
    /\ OutputFile(fs0) = File(OldOutput)
    /\ OutputFile(fs) = File(OldOutput)

(***************************************************************************)
(* C8: the process exits with status 0 only if every stage succeeded: the  *)
(* configuration was read and decoded into the descriptor, the model was   *)
(* loaded, the interpreter built, the tensors allocated, the input read    *)
(* into the input tensor, the model invoked and the output written in      *)
(* full.  Every other execution that ends, ends with an error and a        *)
(* non-zero status.                                                        *)
(***************************************************************************)
EveryStageSucceeded ==
    /\ fs0[ConfigName].exists /\ input = fs0[ConfigName].data
    /\ parsed = "true" /\ FromBytes(input).ok /\ service = FromBytes(input).val
    /\ interp.loaded /\ ModelFile0.exists /\ IsModel(ModelFile0.data)
    /\ interp.built /\ ~FailsAt(interp.model, "build")
    /\ interp.allocated /\ ~FailsAt(interp.model, "allocate_tensors")
    /\ InputFile0.exists /\ interp.inputData = Take(InputFile0.data, InLen)
    /\ interp.invoked /\ ~FailsAt(interp.model, "invoke")
    /\ output = interp.outputData /\ OutputFile(fs) = File(output)

C8_ExitStatus ==
    /\ exit = <<0>> => EveryStageSucceeded /\ err = "none"
    /\ (pc = "Exited" /\ exit # <<0>>) => err # "none" /\ exit \in {<<1>>, <<101>>}
    /\ (pc = "Exited") <=> (exit # <<>>)

\* A run that ended with status 0.
C8_Witness ==
    /\ pc = "Exited"
    /\ exit = <<0>>
    /\ parsed = "true"
    /\ "write" \in Ops

(***************************************************************************)
(* C9: if the configuration bytes do not decode, then whatever the file    *)
(* system holds the process never exits with status 0 and never creates    *)
(* or writes a file: no run completes against the default descriptor.      *)
(***************************************************************************)
C9_MalformedConfigFatal ==
    parsed = "false"
        => /\ exit # <<0>>
           /\ fs = fs0
           /\ Ops \subseteq {"read"}
           /\ ~interp.invoked
           /\ pc \notin {"OutputCreated", "OutputWritten"}

\* A malformed configuration in a file system where a valid model, a well
\* sized input and an old output exist: the process ended with status 1.
C9_Witness ==
    /\ pc = "Exited"
    /\ parsed = "false"
    /\ input # <<>>
    /\ fs0[<<109>>].exists /\ IsModel(fs0[<<109>>].data)
    /\ fs0[<<105>>] = File(Pattern(InLen))
    /\ exit = <<1>>

(***************************************************************************)
(* C10: infer's stages are the linear state machine Created, ModelLoaded,  *)
(* InterpreterReady, TensorsAllocated, InputBound, Invoked, OutputWritten: *)
(* a stage is entered only from its immediate predecessor (so none is      *)
(* entered twice), a step that fails moves directly to Failed, and from    *)
(* Failed nothing happens but the process ending: no pipeline step, no     *)
(* file access.                                                            *)
(***************************************************************************)
Stages ==
    <<"Created", "ModelLoaded", "InterpreterReady", "TensorsAllocated", "InputBound",
      "Invoked", "OutputWritten">>

\* The stage a position of infer belongs to: set_num_threads is part of
\* InterpreterReady, output extraction and File::create are part of Invoked.
StageOf(p) ==
    CASE p \in {"InterpreterReady", "ThreadsSet"} -> "InterpreterReady"
      [] p \in {"Invoked", "OutputExtracted", "OutputCreated"} -> "Invoked"
      [] OTHER -> p

StageIndex(st) == CHOOSE k \in 1..Len(Stages) : Stages[k] = st
InPipeline(p) == \E k \in 1..Len(Stages) : Stages[k] = StageOf(p)

C10_Step ==
    /\ (InPipeline(pc') /\ StageOf(pc') # StageOf(pc))
          => IF StageOf(pc') = "Created" THEN pc = "read"
             ELSE InPipeline(pc) /\ StageIndex(StageOf(pc')) = StageIndex(StageOf(pc)) + 1
    /\ (err = "none" /\ err' # "none") => InPipeline(pc) \/ pc = "main"
    /\ err' # "none" => pc' \in {"Failed", "Exited"}
    /\ pc' = "Failed" => err' # "none" /\ pc # "Failed"
    /\ pc = "Failed"
          => /\ pc' = "Exited"
             /\ UNCHANGED <<fs, accesses, interp, output, service, err>>
    /\ InPipeline(pc) => pc' = "Failed" \/ InPipeline(pc') \/ pc = "OutputWritten"

C10_LinearStateMachine == [][C10_Step]_vars

\* A run that failed at invocation and has ended.
C10_Witness ==
    /\ pc = "Exited"
    /\ err = "InvocationError"
    /\ interp.allocated
    /\ ~interp.invoked
    /\ fs = fs0

(***************************************************************************)
(* C11: in every run that reaches tensor allocation the thread count has   *)
(* been set exactly once, to the descriptor's num_threads as it is (-1     *)
(* included), after the interpreter was built and before allocate_tensors; *)
(* tensors are never allocated with the thread count unset.                *)
(***************************************************************************)
C11_ThreadsBeforeAllocation ==
    /\ Len(interp.num_threads) <= 1
    /\ interp.num_threads # <<>>
          => interp.built /\ interp.num_threads = <<service.num_threads>>
    /\ pc \in {"main", "read", "Created", "ModelLoaded", "InterpreterReady"}
          => interp.num_threads = <<>> /\ ~interp.allocated
    /\ (interp.allocated \/ pc = "ThreadsSet")
          => interp.num_threads = <<service.num_threads>>

\* Tensors allocated in a run whose descriptor asks for -1 threads.
C11_Witness ==
    /\ interp.allocated
    /\ parsed = "true"
    /\ service.num_threads = -1
    /\ interp.num_threads = <<-1>>

(***************************************************************************)
(* C12: after a successful run the file at "/" joined with                 *)
(* output_tensor_path holds exactly the bytes of the output tensor; for    *)
(* the identity model (every model here computes output = input) and an    *)
(* input file of N bytes it is byte-identical to the input file.           *)
(***************************************************************************)
C12_OutputIsInput ==
    exit = <<0>>
        => /\ OpenRead(fs, <<Slash>> \o Components(service.output_tensor_path)[1])
                 = File(interp.outputData)
           /\ OutputFile(fs).data = InputFile0.data

(***************************************************************************)
(* C14: for every valid descriptor, try_parse of its schema-exact encoding *)
(* answers "true" and leaves the descriptor equal to it, field by field.   *)
(***************************************************************************)
C14_RoundTrip ==
    \A d \in JobDescriptors \cup WideDescriptors :
        (parsed # "none" /\ input = Encode(d))
            => /\ parsed = "true"
               /\ service.input_tensor_path = d.input_tensor_path
               /\ service.model_path = d.model_path
               /\ service.output_tensor_path = d.output_tensor_path
               /\ service.num_threads = d.num_threads

\* The parse of the encoding of a descriptor with a negative two-byte
\* thread count.
C14_Witness ==
    /\ parsed = "true"
    /\ input = Encode(Descriptor(NameI, NameM, <<Slash>> \o NameO, -65))
    /\ Len(input) = 9
    /\ service.num_threads = -65

(***************************************************************************)
(* C15: in one run each configured path is accessed at most once, field by *)
(* field, in a fixed order: the model path is read first, the input path   *)
(* is read only after tensor allocation, the output path is created and    *)
(* written (one open file) only after invocation; the model and input      *)
(* paths are only read, the output path only written.                      *)
(***************************************************************************)
ExpectedAccesses ==
    <<[op |-> "read", path |-> ExecutionConfigPath],
      [op |-> "read", path |-> service.model_path],
      [op |-> "read", path |-> service.input_tensor_path],
      [op |-> "create", path |-> OutputPath],
      [op |-> "write", path |-> OutputPath]>>

C15_AccessOrder ==
    /\ Len(accesses) <= Len(ExpectedAccesses)
    /\ accesses = Take(ExpectedAccesses, Len(accesses))
    /\ Len(accesses) >= 2 => parsed # "none"
    /\ Len(accesses) >= 3 => interp.allocated
    /\ Len(accesses) >= 4 => interp.invoked
    /\ (pc = "Exited" /\ exit = <<0>>) => Len(accesses) = Len(ExpectedAccesses)

\* A complete run over three different files.
C15_Witness ==
    /\ pc = "Exited"
    /\ exit = <<0>>
    /\ service.model_path = NameM
    /\ service.input_tensor_path = NameI
    /\ service.output_tensor_path = NameO
    /\ Len(accesses) = 5

(***************************************************************************)
(* C16: the descriptor holds the defaults from process start, is replaced  *)
(* by a successful parse before the pipeline reads it, and is never        *)
(* written afterwards: whenever infer has begun (its model load has read   *)
(* model_path), the descriptor is the result of a successful parse, and    *)
(* it stays what try_parse left.                                           *)
(***************************************************************************)
C16_DescriptorLifecycle ==
    /\ parsed = "none" => service = NewService
    /\ parsed # "none" => service = ParseInto(NewService, input)
    /\ Len(accesses) >= 2 => parsed = "true" /\ service = FromBytes(input).val

(***************************************************************************)
(* C13: two runs that differ only in num_threads, on the same model file,  *)
(* input file and output path and in the same environment, end alike: the  *)
(* same exit status and error, the same files (the output file byte for    *)
(* byte), and the same interpreter state but for the thread count handed   *)
(* to set_num_threads.                                                     *)
(***************************************************************************)
C13_ThreadCountIrrelevant ==
    (prev.run /\ pc = "Exited" /\ ~prev.fault /\ ~EnvFault)
        => /\ service.num_threads # prev.num_threads
           /\ exit = prev.exit
           /\ err = prev.err
           /\ \A n \in FileNames \ {ConfigName} : fs[n] = prev.fs[n]
           /\ OutputFile(fs) = OutputFile(prev.fs)
           /\ [interp EXCEPT !.num_threads = <<>>] = [prev.interp EXCEPT !.num_threads = <<>>]
           /\ (interp.built => interp.num_threads = <<service.num_threads>>)

\* Two successful runs, the first with -1 threads and the second with 2,
\* that left the same output file.
C13_Witness ==
    /\ prev.run
    /\ pc = "Exited"
    /\ prev.num_threads = -1
    /\ service.num_threads = 2
    /\ prev.exit = <<0>>
    /\ exit = <<0>>
    /\ OutputFile(fs) = File(output)

====
